---- MODULE Spec2Model ----
(***************************************************************************)
(* State-machine model of the iNaturalist downloaders:                     *)
(*   inaturalist_downloader.py       (public, mode "public")               *)
(*   inaturalist_downloader_auth.py  (authenticated, mode "auth")          *)
(* One run = main(): paginate the observations endpoint, then for every    *)
(* observation and photo walk the candidate URLs through download_image,   *)
(* fold the outcome into the counters and finally write the output file.   *)
(* Every HTTP request is one step whose answer the server chooses.         *)
(***************************************************************************)
EXTENDS Integers, Sequences, FiniteSets, TLC

(* ------------------------------- bounds ------------------------------- *)
\* a run of main: the photos of the served collection, all observations together
MaxPhotos == 2
\* get_observations' default page size (200 in the source), scaled down
PerPage == 2
\* the per-call GET counter saturates here (the recursion itself is unbounded)
MaxGets == 3
\* calls of get_observations alone: longest collection and largest page size
MaxPagingN == 5
MaxPagingPerPage == 3
\* the output step alone: largest value of each of the three counters
MaxCount == 7
\* extract_species_metadata alone: longest identifications list of a record
MaxIdents == 2

\* `time.sleep(0.5)` between two page requests, in milliseconds
PacingSleepMs == 500

(* ------------------------------- inputs ------------------------------- *)
\* observation ids the server knows, and how many photos each one carries
\* (0 stands for a record whose photos list is empty)
ObsIds == {1, 2}
PhotosOf(id) == IF id = 0 THEN 0 ELSE IF id = 1 THEN 1 ELSE 2

Modes == {"public", "auth"}
Qualities == {"best", "original", "large", "medium", "small"}

\* the direct URL fields a photo record may carry (a representative family)
AllUrlFields == {"original_url", "large_url", "medium_url", "small_url", "url"}
DirectUrlSets == {{}, {"large_url", "url"}, AllUrlFields}

\* files of the images directory: obs_<id>_photo_<j>.jpg
FileNames == {<<id, j>> : id \in ObsIds, j \in 0..1} \ {<<1, 1>>}

Min(a, b) == IF a < b THEN a ELSE b

\* f"obs_{observation['id']}_photo_{j}.jpg"
FileName(id, k) == <<id, k>>

RECURSIVE SeqsUpTo(_, _)
SeqsUpTo(S, n) ==
    IF n = 0 THEN {<<>>}
    ELSE LET shorter == SeqsUpTo(S, n - 1)
         IN  shorter \cup {Append(s, x) : s \in {t \in shorter : Len(t) = n - 1}, x \in S}

VARIABLES
    mode,            \* which script runs
    access_token,    \* auth script: a token was selected (truthy)
    image_quality,   \* args.image_quality
    per_page,        \* get_observations' per_page
    max_observations,\* args.max_observations (0 = not given)
    collection,      \* the server's records, in server order (observation ids)
    pc,              \* position of main
    page,            \* get_observations: the page to request next
    observations,    \* get_observations / main: the records fetched so far
    pageLog,         \* pages requested so far, in order
    pageOutcome,     \* outcome of the last page request
    pageResp,        \* the server's answer to the last page request
    timeline,        \* get_observations: its page requests <<"get", page>> and its
                     \* time.sleep calls <<"sleep", milliseconds>>, in order
    i,               \* main: index of the current observation (1-based, as enumerate(.., 1))
    j,               \* main: index of the current photo (0-based)
    urls,            \* direct URL fields of the current observation's photos
    cand,            \* main: index in the candidate list of the current photo
    call,            \* the current / last download_image call: GETs issued (saturating at
                     \* MaxGets), the last answer, "pending" or what it returned, and
                     \* the time.sleep calls (seconds) made since the last answer
    files,           \* images directory: per file "absent", "old" or "recent" (mtime < 10 s ago)
    partial,         \* files whose body was cut by a streaming error
    opened,          \* files opened for writing during this run
    files0,          \* the images directory as it was before the run
    downloaded_count,
    skipped_count,
    failed_count,
    attempted,       \* photos whose download attempt has been resolved
    photo,           \* the current / last photo attempt: the file existed when it began, a
                     \* GET was issued, a complete body was fetched, the counter it went to
    requested,       \* the URLs a GET was issued for, for the current / last photo, in
                     \* order (a retry of the same URL is not listed again)
    observation_metadata, \* main: the current observation's entry: its id and the
                     \* local_path values set so far, as <<photo index, path>> pairs
    metadata_list,   \* main: the output's observations list
    output,          \* the output file: empty until written, then the one document
    credentials,     \* auth script: --no-auth given, a token given with --access-token,
                     \* a token found in .env
    authSent,        \* the requests sent so far, as <<host, token of the Authorization
                     \* header ("none" without the header)>> pairs
    detail,          \* auth script: outcome of the detail request for the current
                     \* observation ("none": no request made)
    flags,           \* the six --*-only options of the command line
    params,          \* the filter parameters of the last page request
    record,          \* extract_species_metadata: the shape of the observation record
    normalized       \* extract_species_metadata: empty until called, then its outcome

vars == <<mode, access_token, image_quality, per_page, max_observations, collection,
          pc, page, observations, pageLog, pageOutcome, pageResp, timeline, i, j, urls, cand, call,
          files, partial, opened, files0, downloaded_count, skipped_count,
          failed_count, attempted, photo, requested, observation_metadata, metadata_list,
          output, record, normalized, flags, params, credentials, authSent, detail>>

config == <<mode, access_token, image_quality, per_page, max_observations, collection, files0,
           credentials>>
session == <<authSent, detail>>
paging == <<page, observations, pageLog, pageOutcome, pageResp, timeline>>
disk == <<files, partial, opened>>
counters == <<downloaded_count, skipped_count, failed_count, attempted>>
normalizer == <<record, normalized>>
filters == <<flags, params>>
loop == <<i, j, urls, cand, call, photo, requested, observation_metadata>>

(* ---------------------------- the server ------------------------------ *)
\* page p of the collection at page size P
ServerPage(c, p, P) ==
    SubSeq(c, (p - 1) * P + 1, Min(p * P, Len(c)))

\* answers to an image GET: status classes, requests' exceptions, and a 200
\* whose body fails while streaming (ConnectionError / ChunkedEncodingError)
Responses == {"200", "404", "4xx", "429", "5xx", "timeout", "connerr",
              "stream_connerr", "stream_chunked"}

\* answers to a page request: a 200 with its JSON body, or one of the failures
\* response.raise_for_status() / session.get raise as a RequestException
PageResponses == {"200", "429", "5xx", "4xx", "timeout", "connerr"}

(* --------------------------- initial states --------------------------- *)
FreshCall == [gets |-> 0, last |-> "none", result |-> "pending", waits |-> <<>>]
NoMetadata == [id |-> 0, local_path |-> {}]
NoPhoto == [existed |-> FALSE, got |-> FALSE, fetched |-> FALSE, class |-> "pending"]

\* the --captive-only ... --endemic-only options (store_true, default False)
FlagNames == {"captive_only", "wild_only", "introduced_only", "native_only",
              "threatened_only", "endemic_only"}
NoFlags == [n \in FlagNames |-> FALSE]

\* a nested object of a record: the key is missing, maps to null, or maps to an object
Presence == {"absent", "null", "object"}

\* the photos of a record: key missing, null, an empty list, a list of photo objects
PhotoShapes == {"absent", "null", "empty", "list"}

\* the identifications of a record: key missing, null, or a list of identification
\* objects, each with its own `user`
IdentShapes ==
    {[kind |-> k, items |-> <<>>] : k \in {"absent", "null"}}
      \cup {[kind |-> "list", items |-> t] :
               t \in SeqsUpTo([user : Presence], MaxIdents)}

\* the record shapes extract_species_metadata is applied to
Records == [user : Presence, taxon : Presence, photos : PhotoShapes,
            identifications : IdentShapes]

\* a record with every nested object present (one identification, by a user)
FullRecord == [user |-> "object", taxon |-> "object", photos |-> "list",
               identifications |-> [kind |-> "list", items |-> <<[user |-> "object"]>>]]

\* the state main() starts from, for one choice of arguments, server and directory,
\* the filter options left open
MainStart(m, tok, q, P, mx, c, dir) ==
    /\ mode = m
    /\ access_token = tok
    /\ image_quality = q
    /\ per_page = P
    /\ max_observations = mx
    /\ collection = c
    /\ files = dir
    /\ files0 = dir
    /\ partial = {}
    /\ opened = {}
    /\ pc = "paginate"
    /\ page = 1
    /\ observations = <<>>
    /\ pageLog = <<>>
    /\ pageOutcome = "none"
    /\ pageResp = "none"
    /\ timeline = <<>>
    /\ i = 1
    /\ j = 0
    /\ urls = {}
    /\ cand = 1
    /\ call = FreshCall
    /\ downloaded_count = 0
    /\ skipped_count = 0
    /\ failed_count = 0
    /\ attempted = 0
    /\ photo = NoPhoto
    /\ requested = <<>>
    /\ observation_metadata = NoMetadata
    /\ metadata_list = <<>>
    /\ output = <<>>
    /\ record = FullRecord
    /\ normalized = <<>>
    /\ params = {}
    /\ authSent = {}
    /\ detail = "none"

\* no credential option given and no token in .env (the public script has none)
NoCredentials == [no_auth |-> FALSE, cli |-> FALSE, env |-> FALSE]

\* the token, if any, comes from --access-token
CommandLineToken(tok) == [no_auth |-> FALSE, cli |-> tok, env |-> FALSE]

\* the same with none of the filter options given
InitWith(m, tok, q, P, mx, c, dir) ==
    /\ MainStart(m, tok, q, P, mx, c, dir)
    /\ flags = NoFlags
    /\ credentials = CommandLineToken(tok)

\* src/inaturalist_downloader_auth.py:392-406: the public script has no token
Tokens(m) == IF m = "auth" THEN BOOLEAN ELSE {FALSE}

\* the files a run over collection c can touch
FilesOf(c) == {FileName(c[k], n) : k \in 1..Len(c), n \in 0..1} \cap FileNames

\* directories: every file absent, or present with an old or a recent mtime; the
\* files no photo of the collection maps to are left out (absent)
Directories(c) ==
    {dir \in [FileNames -> {"absent", "old", "recent"}] :
        \A f \in FileNames \ FilesOf(c) : dir[f] = "absent"}

RECURSIVE TotalPhotos(_)
TotalPhotos(c) == IF c = <<>> THEN 0 ELSE PhotosOf(Head(c)) + TotalPhotos(Tail(c))

\* the collections a run is checked on (the same observation may be listed twice)
Collections == {c \in SeqsUpTo(ObsIds, MaxPhotos) : TotalPhotos(c) <= MaxPhotos}

\* --max-observations: not given (0), or 1
MaxObservationsOptions == {0, 1}

\* a run of main with the default --image-quality: main never passes per_page, so
\* get_observations runs with its default (200, here PerPage)
Init ==
    \E m \in Modes, mx \in MaxObservationsOptions, c \in Collections :
        \E tok \in Tokens(m), dir \in Directories(c) :
            InitWith(m, tok, "best", PerPage, mx, c, dir)

\* a run of main over one observation with one photo, for every --image-quality
InitQuality ==
    \E m \in Modes, q \in Qualities :
        \E tok \in Tokens(m), dir \in Directories(<<1>>) :
            InitWith(m, tok, q, PerPage, 0, <<1>>, dir)

\* the public script at the end of its observation loop, for every value of the
\* three counters: one photo per observation (a single record without photos when
\* nothing was attempted), the downloaded and skipped ones first
InitRate ==
    \E d \in 0..MaxCount, s \in 0..MaxCount, f \in 0..MaxCount :
        LET n     == d + s + f
            obs   == IF n = 0 THEN <<0>> ELSE [k \in 1..n |-> 1]
            pages == (Len(obs) \div PerPage) + 1
            dir   == [x \in FileNames |-> IF x = FileName(1, 0) /\ d + s > 0
                                          THEN "old" ELSE "absent"]
            list  == [k \in 1..Len(obs) |->
                         [id |-> obs[k], local_path |-> IF k <= d + s THEN {<<0, FileName(1, 0)>>} ELSE {}]]
        IN  /\ mode = "public"
            /\ access_token = FALSE
            /\ image_quality = "best"
            /\ per_page = PerPage
            /\ max_observations = 0
            /\ collection = obs
            /\ files = dir
            /\ files0 = IF d > 0 THEN [x \in FileNames |-> "absent"] ELSE dir
            /\ partial = {}
            /\ opened = IF d > 0 THEN {FileName(1, 0)} ELSE {}
            /\ pc = "obs_loop"
            /\ page = pages
            /\ observations = obs
            /\ pageLog = [k \in 1..pages |-> k]
            /\ pageOutcome = IF Len(obs) % PerPage = 0 THEN "empty" ELSE "short"
            /\ pageResp = "200"
            /\ timeline = [k \in 1..(2 * pages - 1) |->
                              IF k % 2 = 1 THEN <<"get", (k + 1) \div 2>>
                              ELSE <<"sleep", PacingSleepMs>>]
            /\ i = Len(obs) + 1
            /\ j = PhotosOf(obs[Len(obs)])
            /\ urls = {}
            /\ cand = 1
            /\ call = FreshCall
            /\ downloaded_count = d
            /\ skipped_count = s
            /\ failed_count = f
            /\ attempted = n
            /\ photo = NoPhoto
            /\ requested = <<>>
            /\ observation_metadata = list[Len(obs)]
            /\ metadata_list = list
            /\ output = <<>>
            /\ record = FullRecord
            /\ normalized = <<>>
            /\ flags = NoFlags
            /\ params = {}
            /\ credentials = NoCredentials
            /\ authSent = {}
            /\ detail = "none"

\* a call of extract_species_metadata alone, on a record of any shape
InitExtract ==
    \E m \in Modes, rec \in Records :
        /\ mode = m
        /\ access_token = FALSE
        /\ image_quality = "best"
        /\ per_page = PerPage
        /\ max_observations = 0
        /\ collection = <<1>>
        /\ files = [x \in FileNames |-> "absent"]
        /\ files0 = [x \in FileNames |-> "absent"]
        /\ partial = {}
        /\ opened = {}
        /\ pc = "extract"
        /\ page = 1
        /\ observations = <<1>>
        /\ pageLog = <<1>>
        /\ pageOutcome = "short"
        /\ pageResp = "200"
        /\ timeline = <<<<"get", 1>>>>
        /\ i = 1
        /\ j = 0
        /\ urls = {}
        /\ cand = 1
        /\ call = FreshCall
        /\ downloaded_count = 0
        /\ skipped_count = 0
        /\ failed_count = 0
        /\ attempted = 0
        /\ photo = NoPhoto
        /\ requested = <<>>
        /\ observation_metadata = NoMetadata
        /\ metadata_list = <<>>
        /\ output = <<>>
        /\ record = rec
        /\ normalized = <<>>
        /\ flags = NoFlags
        /\ params = {}
        /\ credentials = NoCredentials
        /\ authSent = {}
        /\ detail = "none"

\* --access-token is looked at first, --no-auth only when no token was found
SelectToken_noAuthLast(cr) ==
    IF cr.cli THEN "cli" ELSE IF cr.env THEN "env" ELSE "none"

\* `if args.no_auth: ... elif args.access_token: ... elif args.use_env: ...`
\* (--use-env is store_true with default True): where the token comes from
SelectToken(cr) ==
    IF cr.no_auth THEN "none"
    ELSE IF cr.cli THEN "cli"
    ELSE IF cr.env THEN "env"
    ELSE "none"

\* a run of the authenticated script over one observation, for every combination
\* of --no-auth, --access-token and a token in .env
InitAuth ==
    \E cr \in [no_auth : BOOLEAN, cli : BOOLEAN, env : BOOLEAN] :
        \E dir \in Directories(<<1>>) :
            /\ MainStart("auth", SelectToken(cr) # "none", "best", PerPage, 0, <<1>>, dir)
            /\ flags = NoFlags
            /\ credentials = cr

\* a call of get_observations from main, for every combination of the six
\* --*-only options
InitFlags ==
    \E m \in Modes, fl \in [FlagNames -> BOOLEAN] :
        /\ MainStart(m, FALSE, "best", PerPage, 0, <<1>>, [f \in FileNames |-> "absent"])
        /\ flags = fl
        /\ credentials = NoCredentials

\* a call of get_observations alone, on a collection of n distinct records
InitPaging ==
    \E m \in Modes, P \in 1..MaxPagingPerPage, n \in 0..MaxPagingN :
        InitWith(m, FALSE, "best", P, 0, [k \in 1..n |-> k], [f \in FileNames |-> "absent"])

(* ------------------------------ the session --------------------------- *)
\* `self.session.headers.update({'Authorization': f'Bearer {access_token}'})` when a
\* token was selected: the token every request of the session carries, whatever
\* its URL ("none": no Authorization header; the public script never sets one)
Bearer == IF mode = "auth" /\ access_token THEN SelectToken(credentials) ELSE "none"

(* --------------------------- get_observations ------------------------- *)
\* `if not data.get('results'): break`
NoResults(results) == results = <<>>

\* off by one: a full page taken for the end of the collection
EndOfCollection_le(results, P) == Len(results) <= P

\* `if len(data['results']) < per_page: break`
EndOfCollection(results, P) == Len(results) < P

\* the page counter left where it is
NextPage_same(p) == p

\* `page += 1`
NextPage(p) == p + 1

\* a 429 or 5xx answer sends the loop round again for the same page
PageBreaks_retry(r) == r \notin {"200", "429", "5xx"}

\* `except requests.exceptions.RequestException as e: ...; break`: every failure,
\* whatever its class, leaves the loop
PageBreaks(r) == r # "200"

\* the records gathered so far are thrown away
AfterException_empty(obs) == <<>>

\* the except clause does not touch `observations`; `return observations` follows the loop
AfterException(obs) == obs

\* the next page is requested without a pause
PacingSleep_none == <<>>

\* `time.sleep(0.5)  # Be nice to the API`, last statement of the try body: reached
\* only after a full page
PacingSleep == <<<<"sleep", PacingSleepMs>>>>

\* one iteration of the `while True` loop: one page request and what follows it
\* the two flags of a pair are handled by independent `if`s
FilterArgs_independent(fl) ==
    [captive    |-> IF fl.wild_only THEN "False" ELSE IF fl.captive_only THEN "True" ELSE "None",
     introduced |-> IF fl.introduced_only THEN "True" ELSE "None",
     native     |-> IF fl.native_only THEN "True" ELSE "None",
     threatened |-> IF fl.threatened_only THEN "True" ELSE "None",
     endemic    |-> IF fl.endemic_only THEN "True" ELSE "None"]

\* main's three `if args.x_only: ... elif args.y_only: ...` blocks: the filter
\* arguments passed to get_observations (None unless set)
FilterArgs(fl) ==
    [captive    |-> IF fl.captive_only THEN "True" ELSE IF fl.wild_only THEN "False" ELSE "None",
     introduced |-> IF fl.introduced_only THEN "True" ELSE "None",
     native     |-> IF ~fl.introduced_only /\ fl.native_only THEN "True" ELSE "None",
     threatened |-> IF fl.threatened_only THEN "True" ELSE "None",
     endemic    |-> IF ~fl.threatened_only /\ fl.endemic_only THEN "True" ELSE "None"]

\* `if captive is not None: params['captive'] = captive` and its four siblings:
\* the filter parameters of a page request, as <<name, value>> pairs
RequestParams(a) == {<<k, a[k]>> : k \in {n \in DOMAIN a : a[n] # "None"}}

get_observations_page ==
    /\ pc = "paginate"
    /\ pageLog' = Append(pageLog, page)
    /\ params' = RequestParams(FilterArgs(flags))
    /\ authSent' = authSent \cup {<<"api", Bearer>>}
    /\ \E r \in PageResponses :
        /\ pageResp' = r
        /\ IF r # "200"
           THEN \* requests.exceptions.RequestException: log, break
                /\ pageOutcome' = "error"
                /\ pc' = IF PageBreaks(r) THEN "fetched" ELSE "paginate"
                /\ observations' = AfterException(observations)
                /\ timeline' = Append(timeline, <<"get", page>>)
                /\ UNCHANGED page
           ELSE LET results == ServerPage(collection, page, per_page) IN
                IF NoResults(results)
                THEN /\ pageOutcome' = "empty"
                     /\ pc' = "fetched"
                     /\ timeline' = Append(timeline, <<"get", page>>)
                     /\ UNCHANGED <<page, observations>>
                ELSE /\ observations' = observations \o results
                     /\ IF EndOfCollection(results, per_page)
                        THEN /\ pageOutcome' = "short"
                             /\ pc' = "fetched"
                             /\ page' = page
                             /\ timeline' = Append(timeline, <<"get", page>>)
                        ELSE \* page += 1; time.sleep(0.5)
                             /\ pageOutcome' = "full"
                             /\ pc' = "paginate"
                             /\ page' = NextPage(page)
                             /\ timeline' = Append(timeline, <<"get", page>>) \o PacingSleep
    /\ UNCHANGED <<config, normalizer, flags, detail, loop, disk, counters, metadata_list, output>>

(* -------------------------------- main -------------------------------- *)
\* `observations[:args.max_observations]` when the option is given
Limited(obs, mx) == IF mx # 0 THEN SubSeq(obs, 1, Min(mx, Len(obs))) ELSE obs

\* the run goes on to the loop and the output step with whatever was returned
ReturnsEarly_never(obs) == FALSE

\* `if not observations: logger.warning("No observations found ..."); return`
ReturnsEarly(obs) == obs = <<>>

\* after get_observations returned: the early return and the max-observations cut
main_after_fetch ==
    /\ pc = "fetched"
    /\ IF ReturnsEarly(observations)
       THEN /\ pc' = "returned"
            /\ UNCHANGED observations
       ELSE /\ observations' = Limited(observations, max_observations)
            /\ pc' = "obs_loop"
    /\ UNCHANGED <<config, normalizer, filters, session, page, pageLog, pageOutcome, pageResp, timeline, loop, disk, counters,
                   metadata_list, output>>



\* the observation main's loop is at (the detail record keeps the listing's id)
CurId == observations[i]

\* extract_species_metadata: the entry of an observation, no photo has a local_path yet
extract_species_metadata(id) == [id |-> id, local_path |-> {}]

\* `d.get(key, {})`: the default stands in only for a missing key, a key that
\* maps to null yields None
GetOrEmptyDict(v) == IF v = "absent" THEN "empty" ELSE v

\* `observation.get('user', {}).get('id')` and its siblings: .get on None raises
\* AttributeError, on the empty default every field is None
UserFields(v) ==
    CASE GetOrEmptyDict(v) = "null"  -> "AttributeError"
      [] GetOrEmptyDict(v) = "empty" -> "nulls"
      [] OTHER                       -> "values"

\* `if observation.get('taxon'):` / `('photos')` / `('identifications')`: a missing
\* key, null and an empty list are all falsy
Truthy(v) == v \notin {"absent", "null", "empty"}

\* extract_species_metadata on a record shape: the exception it raises, or the
\* shape of the dictionary it returns
SpeciesMetadata(rec) ==
    LET items  == rec.identifications.items
        idents == [k \in 1..Len(items) |-> UserFields(items[k].user)]
    IN  IF UserFields(rec.user) = "AttributeError"
             \/ \E k \in 1..Len(idents) : idents[k] = "AttributeError"
        THEN [error |-> "AttributeError"]
        ELSE [error |-> "none",
              user |-> UserFields(rec.user),
              species |-> IF Truthy(rec.taxon) THEN "values" ELSE "null",
              photos |-> IF Truthy(rec.photos) THEN "list" ELSE "empty",
              identifications |-> idents]

\* one call of extract_species_metadata
extract_call ==
    /\ pc = "extract"
    /\ normalized' = <<SpeciesMetadata(record)>>
    /\ pc' = "extracted"
    /\ UNCHANGED <<config, filters, session, paging, loop, disk, counters, metadata_list, output,
                   record>>

\* get_observation_details: the detail record ("ok"), or None after a
\* RequestException ("failed") or an answer without results ("empty")
DetailOutcomes == {"ok", "failed", "empty"}

\* whatever get_observation_details returned is taken for the observation
Replaces_always(d) == TRUE

\* `if detailed_obs: observation = detailed_obs`
Replaces(d) == d = "ok"

\* top of the `for i, observation in enumerate(observations, 1)` loop: in the
\* authenticated script with a token the detail record is requested first; when
\* one comes back it replaces the listing's record and carries the direct URL
\* fields the server chose, otherwise the listing's record (no direct URL field)
\* stays; extract_species_metadata on None raises and ends the run
main_next_observation ==
    /\ pc = "obs_loop"
    /\ i <= Len(observations)
    /\ IF mode = "auth" /\ access_token
       THEN /\ authSent' = authSent \cup {<<"api", Bearer>>}
            /\ \E d \in DetailOutcomes :
                 /\ detail' = d
                 /\ IF Replaces(d)
                    THEN IF d = "ok"
                         THEN /\ \E u \in DirectUrlSets : urls' = u
                              /\ observation_metadata' = extract_species_metadata(CurId)
                              /\ pc' = "photo_loop"
                         ELSE /\ pc' = "crashed"
                              /\ UNCHANGED <<urls, observation_metadata>>
                    ELSE /\ urls' = {}
                         /\ observation_metadata' = extract_species_metadata(CurId)
                         /\ pc' = "photo_loop"
       ELSE /\ urls' = {}
            /\ detail' = "none"
            /\ observation_metadata' = extract_species_metadata(CurId)
            /\ pc' = "photo_loop"
            /\ UNCHANGED authSent
    /\ j' = 0
    /\ UNCHANGED <<config, normalizer, filters, paging, i, cand, call, photo, requested, disk,
                   counters, metadata_list, output>>

(* --------------------------- Image Locator ---------------------------- *)
\* the requested size is ignored: the list of 'best' whatever the preference
TemplateChain_best(q) == <<"original", "large", "square">>

\* the `for quality in [...]` lists of the template-URL fallback loops
TemplateChain(q) ==
    CASE q = "original" -> <<"original", "large", "square">>
      [] q = "large"    -> <<"large", "original", "square">>
      [] q = "medium"   -> <<"medium", "large", "original", "square">>
      [] q = "small"    -> <<"small", "medium", "large", "original", "square">>
      [] OTHER          -> <<"original", "large", "square">>

\* the `photo.get(..) or photo.get(..) or ...` chains of the authenticated script
DirectChain(q) ==
    CASE q = "original" -> <<"original_url", "large_url", "url">>
      [] q = "large"    -> <<"large_url", "original_url", "url">>
      [] q = "medium"   -> <<"medium_url", "large_url", "original_url", "url">>
      [] q = "small"    -> <<"small_url", "medium_url", "large_url", "original_url", "url">>
      [] OTHER          -> <<"original_url", "large_url", "url">>

\* a or b or c: the first field of the chain the record carries
FirstPresent(chain, u) ==
    chain[CHOOSE k \in 1..Len(chain) :
            /\ chain[k] \in u
            /\ \A h \in 1..(k - 1) : chain[h] \notin u]

\* `if access_token and photo.get('original_url')`
UseDirect(m, tok, u) == m = "auth" /\ tok /\ "original_url" \in u

\* the URLs main hands to download_image for one photo, in order
Candidates(m, tok, q, u) ==
    IF UseDirect(m, tok, u)
    THEN <<[host |-> "direct", tier |-> FirstPresent(DirectChain(q), u)]>>
    ELSE [k \in 1..Len(TemplateChain(q)) |-> [host |-> "bucket", tier |-> TemplateChain(q)[k]]]

CurCandidates == Candidates(mode, access_token, image_quality, urls)

\* an observation none of whose photos was saved is left out of the list
AppendEntry_onlySaved(list, entry) ==
    IF entry.local_path = {} THEN list ELSE Append(list, entry)

\* `metadata_list.append(observation_metadata)`: unconditional, last statement of
\* the loop body
AppendEntry(list, entry) == Append(list, entry)

\* top of the `for j, photo in enumerate(observation['photos'])` loop; after the last
\* photo the observation's entry is appended to metadata_list
main_next_photo ==
    /\ pc = "photo_loop"
    /\ IF j < PhotosOf(CurId)
       THEN /\ cand' = 1
            /\ call' = FreshCall
            /\ photo' = [existed |-> files[FileName(CurId, j)] # "absent", got |-> FALSE,
                         fetched |-> FALSE, class |-> "pending"]
            /\ requested' = <<>>
            /\ pc' = "download"
            /\ UNCHANGED <<i, j, metadata_list>>
       ELSE /\ metadata_list' = AppendEntry(metadata_list, observation_metadata)
            /\ i' = i + 1
            /\ pc' = "obs_loop"
            /\ UNCHANGED <<j, cand, call, photo, requested>>
    /\ UNCHANGED <<config, normalizer, filters, session, paging, urls, observation_metadata, disk, counters, output>>


(* --------------------------- download_image --------------------------- *)
\* every failure status but 404 is retried (`>= 400` for `>= 500`)
PublicHandler_retry4xx(r) ==
    CASE r = "200"            -> "path"
      [] r = "404"            -> "none"
      [] r = "stream_chunked" -> "none"
      [] OTHER                -> "retry"

\* the public script's try/except: what one GET's answer leads to
\* ("path": return filepath, "none": return None, "retry": sleep, then the recursive call)
PublicHandler(r) ==
    CASE r = "200"            -> "path"
      [] r = "404"            -> "none"
      [] r = "429"            -> "retry"
      [] r = "5xx"            -> "retry"
      [] r = "4xx"            -> "none"
      [] r = "timeout"        -> "retry"
      [] r = "connerr"        -> "retry"
      [] r = "stream_connerr" -> "retry"
      [] OTHER                -> "none"

\* the authenticated script's try/except Exception: every failure returns None
AuthHandler(r) == IF r = "200" THEN "path" ELSE "none"

Handler(m, r) == IF m = "public" THEN PublicHandler(r) ELSE AuthHandler(r)

\* one wait of 10 seconds whatever the failure was
SleepSeconds_flat(r) == IF r = "200" THEN 0 ELSE 10

\* time.sleep(..) seconds before the recursive call (public script only)
SleepSeconds(r) ==
    CASE r = "429"            -> 60
      [] r = "5xx"            -> 10
      [] r = "timeout"        -> 5
      [] r = "connerr"        -> 10
      [] r = "stream_connerr" -> 10
      [] OTHER                -> 0

\* the authenticated script passes no timeout to session.get: no Timeout is raised
ImageResponses(m) == IF m = "public" THEN Responses ELSE Responses \ {"timeout"}

\* answers after which `open(filepath, 'wb')` has run
OpensFile(r) == r \in {"200", "stream_connerr", "stream_chunked"}

\* `if os.path.exists(filepath): return filepath` (the public script only)
SkipsExisting(m, fstate) == m = "public" /\ fstate # "absent"

\* ten seconds or more went by: no file's mtime is within the last 10 s any more
Aged(fs) == [f \in DOMAIN fs |-> IF fs[f] = "recent" THEN "old" ELSE fs[f]]

\* the directory after one GET answered r: time passes while the request is out
\* (slow: 10 s or more; a timeout is 30 s), then the body is written, then the sleep
FilesAfter(m, fs, f, r, slow) ==
    LET waited  == IF slow \/ r = "timeout" THEN Aged(fs) ELSE fs
        written == IF OpensFile(r) THEN [waited EXCEPT ![f] = "recent"] ELSE waited
    IN  IF Handler(m, r) = "retry" /\ SleepSeconds(r) >= 10 THEN Aged(written) ELSE written

\* `if current_time - file_stat.st_mtime < 10` (public main); the authenticated
\* main counts every returned path as downloaded
ClassifyPath(m, fstate) ==
    IF m = "public"
    THEN IF fstate = "recent" THEN "downloaded" ELSE "skipped"
    ELSE "downloaded"

\* `else: failed_count += 1` (public main); the authenticated main has no such branch
ClassifyNone(m) == IF m = "public" THEN "failed" ELSE "uncounted"

\* main folds the outcome of the photo into the counters and moves to the next photo
Fold(cls, ph) ==
    /\ downloaded_count' = downloaded_count + (IF cls = "downloaded" THEN 1 ELSE 0)
    /\ skipped_count' = skipped_count + (IF cls = "skipped" THEN 1 ELSE 0)
    /\ failed_count' = failed_count + (IF cls = "failed" THEN 1 ELSE 0)
    /\ attempted' = attempted + 1
    /\ photo' = [ph EXCEPT !.class = cls]
    /\ j' = j + 1
    /\ pc' = "photo_loop"

\* the first failure ends the photo: no further `quality` is tried
MoreCandidates_none(k, cands) == FALSE

\* the `for quality in [...]` loop (one iteration in the direct-URL branch) has
\* another URL to go to after the k-th returned None
MoreCandidates(k, cands) == k < Len(cands)

\* the path is stored on the observation's first photo whatever the index
WithLocalPath_first(entry, k, path) ==
    [entry EXCEPT !.local_path = @ \cup {<<0, path>>}]

\* `observation_metadata['photos'][j]['local_path'] = downloaded_path`
WithLocalPath(entry, k, path) ==
    [entry EXCEPT !.local_path = @ \cup {<<k, path>>}]

\* what main does with the state c of the download_image call
Returned(c, fs, ph) ==
    /\ call' = c
    /\ files' = fs
    /\ CASE c.result = "pending" ->
              \* the recursive call is about to start
              /\ photo' = ph
              /\ UNCHANGED <<pc, j, cand, counters, observation_metadata>>
         [] c.result = "path" ->
              \* `if downloaded_path: break`, then the counters and local_path
              /\ Fold(ClassifyPath(mode, fs[FileName(CurId, j)]), ph)
              /\ observation_metadata' =
                    WithLocalPath(observation_metadata, j, FileName(CurId, j))
              /\ UNCHANGED cand
         [] OTHER ->
              IF MoreCandidates(cand, CurCandidates)
              THEN \* next `quality` of the fallback loop
                   /\ cand' = cand + 1
                   /\ photo' = ph
                   /\ UNCHANGED <<pc, j, counters, observation_metadata>>
              ELSE /\ Fold(ClassifyNone(mode), ph)
                   /\ UNCHANGED <<cand, observation_metadata>>

\* one pass through download_image's body: the exists check and, unless it
\* returns, one GET with the handling of its answer
download_image ==
    /\ pc = "download"
    /\ LET f  == FileName(CurId, j)
           c0 == IF call.result = "pending" THEN call ELSE FreshCall
       IN  IF SkipsExisting(mode, files[f])
           THEN /\ Returned([c0 EXCEPT !.result = "path", !.waits = <<>>], files, photo)
                /\ UNCHANGED <<partial, opened, requested, authSent>>
           ELSE \E r \in ImageResponses(mode), slow \in BOOLEAN :
                  LET h  == Handler(mode, r)
                      c1 == [gets   |-> Min(c0.gets + 1, MaxGets),
                             last   |-> r,
                             result |-> IF h = "retry" THEN "pending" ELSE h,
                             waits  |-> IF h = "retry" THEN <<SleepSeconds(r)>> ELSE <<>>]
                      url == CurCandidates[cand]
                      ph == [photo EXCEPT !.got = TRUE, !.fetched = @ \/ r = "200"]
                  IN  /\ Returned(c1, FilesAfter(mode, files, f, r, slow), ph)
                      /\ requested' = IF requested # <<>> /\ requested[Len(requested)] = url
                                       THEN requested
                                       ELSE Append(requested, url)
                      /\ authSent' = authSent \cup {<<url.host, Bearer>>}
                      /\ opened' = IF OpensFile(r) THEN opened \cup {f} ELSE opened
                      /\ partial' = CASE r = "200"    -> partial \ {f}
                                      [] OpensFile(r) -> partial \cup {f}
                                      [] OTHER        -> partial
    /\ UNCHANGED <<config, normalizer, filters, detail, paging, i, urls, metadata_list, output>>

\* num / den rounded to the nearest integer, halves to the even neighbour
RoundHalfEven(num, den) ==
    LET q == num \div den
        r == num % den
    IN  IF 2 * r > den \/ (2 * r = den /\ q % 2 = 1) THEN q + 1 ELSE q

\* the digits after the first decimal are cut off instead of rounded
SuccessRatePercent_truncated(d, s, f) ==
    IF d + s + f > 0 THEN (1000 * (d + s)) \div (d + s + f) ELSE 0

\* `round(((d + s) / (d + s + f) * 100) if (d + s + f) > 0 else 0, 1)`, in tenths of
\* a percent: round(x, 1) rounds the float to the nearest tenth, an exact half to
\* the even digit (13/16 gives 81.2); for counters up to MaxCount + 1 the float
\* quotient decides as the exact one does
SuccessRatePercent(d, s, f) ==
    IF d + s + f > 0 THEN RoundHalfEven(1000 * (d + s), d + s + f) ELSE 0

\* after the last observation: the summary and the observations list are written
\* (the authenticated script writes total_observations, images_downloaded and
\* the observations only)
main_write_output ==
    /\ pc = "obs_loop"
    /\ i > Len(observations)
    /\ output' = <<[total_observations |-> Len(metadata_list),
                    images_downloaded  |-> downloaded_count,
                    images_skipped     |-> skipped_count,
                    images_failed      |-> failed_count,
                    success_rate_percent |->
                        SuccessRatePercent(downloaded_count, skipped_count, failed_count),
                    observations       |-> metadata_list]>>
    /\ pc' = "done"
    /\ UNCHANGED <<config, normalizer, filters, session, paging, loop, disk, counters, metadata_list>>

Next ==
    \/ get_observations_page
    \/ main_after_fetch
    \/ main_next_observation
    \/ main_next_photo
    \/ download_image
    \/ main_write_output

Spec == Init /\ [][Next]_vars

\* the run keeps taking its next step (the process is scheduled); the server
\* stays free in every answer
FairSpec == Init /\ [][Next]_vars /\ WF_vars(Next)

\* get_observations called on its own
SpecQuality == InitQuality /\ [][Next]_vars
SpecRate == InitRate /\ [][main_write_output]_vars
SpecExtract == InitExtract /\ [][extract_call]_vars
SpecFlags == InitFlags /\ [][get_observations_page]_vars
SpecAuth == InitAuth /\ [][Next]_vars
SpecPaging == InitPaging /\ [][get_observations_page]_vars


(* ============================== claims ================================ *)

\* the file the current photo attempt is about
CurFile == FileName(CurId, j)

\* C1: one call of download_image issues at most two GETs (the original and one
\* retry), whatever transient failures the server produces.
C1_AtMostTwoGets == call.gets <= 2

\* C2: a 429 on the first GET of a download is followed by a retry of the same URL,
\* and when that retry answers 200 the call has issued exactly two GETs, the file is
\* written, the path is returned and the photo is counted as downloaded.
C2_RetryAfter429 ==
    [][/\ (pc = "download" /\ call' # call /\ call'.gets = 1 /\ call'.last = "429")
            => call'.result = "pending"
       /\ (pc = "download" /\ call.result = "pending" /\ call.gets = 1
           /\ call.last = "429" /\ call'.last = "200")
            => /\ call'.gets = 2
               /\ call'.result = "path"
               /\ files'[CurFile] # "absent"
               /\ CurFile \notin partial'
               /\ photo'.class = "downloaded"]_vars

\* C3: when the first two GETs of a download both answer 429 the call returns
\* failure after exactly those two GETs: the second 429 ends the call.
C3_Second429Fails ==
    [][(pc = "download" /\ call.result = "pending" /\ call.gets = 1
        /\ call.last = "429" /\ call'.gets = 2 /\ call'.last = "429")
          => call'.result = "none"]_vars

\* C4: every photo download attempt reaches a terminal outcome and the run goes on
\* to write its output, whatever the server answers.
C4_RunTerminates == (pc = "download") ~> (pc = "done")

\* C5: between photos and in the written summary, downloaded + skipped + failed is
\* the number of photos attempted so far.
C5_CountersSum ==
    /\ pc \in {"obs_loop", "photo_loop", "done"}
         => downloaded_count + skipped_count + failed_count = attempted
    /\ output # <<>>
         => output[1].images_downloaded + output[1].images_skipped
              + output[1].images_failed = attempted

\* C6: a file present in the images directory before the run is never opened for
\* writing during the run.
C6_ExistingNeverOpened ==
    \A f \in FileNames : files0[f] # "absent" => f \notin opened

\* C7: when the destination file exists at the moment a photo's download is
\* attempted, no GET is issued for the photo and the existing path is returned.
C7_ExistingNoGet ==
    (pc \in {"download", "photo_loop"} /\ photo.existed)
      => /\ ~photo.got
         /\ photo.class # "pending" => call.result = "path"

\* C8: (public script) a resolved photo is counted skipped exactly when its file
\* existed before the attempt began, and downloaded exactly when its bytes were
\* fetched during the attempt.
C8_ClassMatchesOutcome ==
    (mode = "public" /\ photo.class # "pending")
      => /\ photo.class = "skipped" <=> photo.existed
         /\ photo.class = "downloaded" <=> photo.fetched

\* C9: on a fixed collection of N records served in pages of P, get_observations
\* issues exactly floor(N/P)+1 page requests and returns the N records in order.
C9_PagesAndRecords ==
    (pc = "fetched" /\ pageOutcome # "error")
      => /\ Len(pageLog) = (Len(collection) \div per_page) + 1
         /\ observations = collection

\* pages of 2, 2, 1 at page size 2: three requests, five records
C9_Witness ==
    /\ pc = "fetched"
    /\ per_page = 2
    /\ Len(collection) = 5
    /\ pageOutcome = "short"
    /\ Len(pageLog) = 3
    /\ Len(observations) = 5

\* C10: the pages requested are 1, 2, 3, ... in order, each once, and no page is
\* requested after an empty or short page has been received.
C10_PagesInOrder ==
    [](\A k \in 1..Len(pageLog) : pageLog[k] = k)
      /\ [][(pageOutcome \in {"empty", "short"}) => (pageLog' = pageLog)]_vars

\* three pages were requested and the third one was short: pagination stopped
C10_Witness ==
    /\ pageLog = <<1, 2, 3>>
    /\ pageOutcome = "short"
    /\ pc = "fetched"

\* the failures a page request can end in (network errors and HTTP error statuses)
PageFailures == PageResponses \ {"200"}

\* C11: when the request for page k fails with a network or HTTP error,
\* get_observations has returned normally (nothing raised), page k was requested
\* once only and is the last request, and the records returned are exactly those
\* of pages 1..k-1
C11_FailureReturnsEarlierPages ==
    (pageOutcome = "error" /\ pageResp \in PageFailures) =>
        LET k == pageLog[Len(pageLog)] IN
        /\ pc = "fetched"
        /\ Cardinality({n \in 1..Len(pageLog) : pageLog[n] = k}) = 1
        /\ observations = SubSeq(collection, 1, (k - 1) * per_page)

\* the third page of a collection of five fails at page size 2: four records returned
C11_Witness ==
    /\ pageOutcome = "error"
    /\ pageResp = "connerr"
    /\ per_page = 2
    /\ Len(collection) = 5
    /\ pageLog = <<1, 2, 3>>
    /\ observations = <<1, 2, 3, 4>>
    /\ pc = "fetched"

\* C13 as stated: a 429 or 5xx answer to a page request is retried once, i.e. after
\* the first such answer for a page the loop is about to request that page again
C13_PageRetriedOnce ==
    (pageResp \in {"429", "5xx"}
       /\ Cardinality({n \in 1..Len(pageLog) : pageLog[n] = pageLog[Len(pageLog)]}) = 1)
        => (pc = "paginate" /\ page = pageLog[Len(pageLog)])

\* C13 (amended): the retry policy does not apply to page requests; after a 429
\* or 5xx answer to a page request pagination is over, and that page was
\* requested exactly once
C13_PageNotRetried ==
    pageResp \in {"429", "5xx"} =>
        /\ pc # "paginate"
        /\ pageOutcome = "error"
        /\ Cardinality({n \in 1..Len(pageLog) : pageLog[n] = pageLog[Len(pageLog)]}) = 1

\* the second page was answered 429 and pagination is over after two requests
C13_Witness ==
    /\ pageResp = "429"
    /\ pageLog = <<1, 2>>
    /\ pc = "fetched"
    /\ Len(observations) = per_page

\* the observation ids of the entries of a metadata list, in order
EntryIds(list) == [n \in 1..Len(list) |-> list[n].id]

\* C12 as stated: after a pagination failure on any page, the first included, the
\* run does not end without reaching the step that writes the output file
C12_FailureStillWritesOutput ==
    pageOutcome = "error" => pc # "returned"

\* C12 (amended): after a pagination failure with at least one record collected
\* main does not return early, and the output it writes holds one entry per record
\* collected before the failure (up to --max-observations), in order; when the
\* first page fails nothing was collected, main returns and no output is written
C12_FailureKeepsCollected ==
    pageOutcome = "error" =>
        LET k == pageLog[Len(pageLog)]
            collected == SubSeq(collection, 1, (k - 1) * per_page)
        IN  /\ (collected = <<>> /\ pc # "fetched") => (pc = "returned" /\ output = <<>>)
            /\ collected # <<>> => pc # "returned"
            /\ output # <<>> =>
                  /\ EntryIds(output[1].observations) = Limited(collected, max_observations)
                  /\ pc = "done"

\* the second page failed after a full first page; the run ended with both records written
C12_Witness ==
    /\ pageOutcome = "error"
    /\ pageLog = <<1, 2>>
    /\ pc = "done"
    /\ output # <<>>
    /\ Len(output[1].observations) = 2

\* C14: a 404 or any other 4xx answer except 429 to an image GET ends the call at
\* once: the call has returned failure with no wait after that answer, and when it
\* was the answer to the call's first GET that GET is the only one of the call
C14_ClientErrorNotRetried ==
    [](call.last \in {"404", "4xx"} => (call.result = "none" /\ call.waits = <<>>))
      /\ [][(pc = "download" /\ call'.last \in {"404", "4xx"}
               /\ (call.result # "pending" \/ call.gets = 0))
              => (call'.gets = 1 /\ call'.result = "none" /\ call'.waits = <<>>)]_vars

\* the public script's call got a 403-like answer to its only GET and returned None
C14_Witness ==
    /\ mode = "public"
    /\ call.last = "4xx"
    /\ call.gets = 1
    /\ call.result = "none"
    /\ call.waits = <<>>
    /\ photo.got

\* C15: while a retry is pending after a failed image GET exactly one wait has been
\* made, of 60 s after 429, 10 s after 5xx, 10 s after a connection failure and 5 s
\* after a timeout; a call that has returned (success or failure) made no wait
\* after its last answer
C15_OneWaitByClass ==
    /\ (call.result = "pending" /\ call.gets > 0) =>
          /\ Len(call.waits) = 1
          /\ call.last = "429" => call.waits[1] = 60
          /\ call.last = "5xx" => call.waits[1] = 10
          /\ call.last \in {"connerr", "stream_connerr"} => call.waits[1] = 10
          /\ call.last = "timeout" => call.waits[1] = 5
          /\ call.last \in {"429", "5xx", "connerr", "stream_connerr", "timeout"}
    /\ call.result # "pending" => call.waits = <<>>

\* a timed-out first GET with its 5 s wait made and the retry pending
C15_Witness ==
    /\ call.result = "pending"
    /\ call.gets = 1
    /\ call.last = "timeout"
    /\ call.waits = <<5>>

\* no token is in use: the public script, or the authenticated one run without a token
Unauthenticated == mode = "public" \/ ~access_token

\* C16: without authentication the URLs a GET is issued for, for one photo, are
\* storage-bucket URLs whose size suffixes form a prefix of the list of the
\* requested preference; nothing is requested after a complete download, and a
\* photo is given up only after the whole list was requested
C16_TemplateOrder ==
    Unauthenticated =>
        LET expected ==
                CASE image_quality = "original" -> <<"original", "large", "square">>
                  [] image_quality = "large"    -> <<"large", "original", "square">>
                  [] image_quality = "medium"   -> <<"medium", "large", "original", "square">>
                  [] image_quality = "small"    ->
                         <<"small", "medium", "large", "original", "square">>
                  [] image_quality = "best"     -> <<"original", "large", "square">>
        IN  /\ Len(requested) <= Len(expected)
            /\ \A k \in 1..Len(requested) :
                  requested[k] = [host |-> "bucket", tier |-> expected[k]]
            /\ photo.fetched => photo.class # "pending"
            /\ photo.class \in {"failed", "uncounted"} => Len(requested) = Len(expected)

\* preference small: the third URL answered 200 after small and medium had failed
C16_Witness ==
    /\ Unauthenticated
    /\ image_quality = "small"
    /\ photo.fetched
    /\ Len(requested) = 3
    /\ requested[1].tier = "small"
    /\ requested[2].tier = "medium"
    /\ requested[3].tier = "large"

\* the fields of the preference's chain the record carries, in chain order
AvailableChain(q, u) == SelectSeq(DirectChain(q), LAMBDA t : t \in u)

\* C17: with a token, a photo whose record carries the direct URLs is given up only
\* after a GET was issued for every available URL of the preference's chain, in
\* chain order
C17_DirectChainExhausted ==
    (mode = "auth" /\ access_token /\ "original_url" \in urls
       /\ photo.class \in {"failed", "uncounted"}) =>
        LET chain == AvailableChain(image_quality, urls)
        IN  /\ Len(requested) = Len(chain)
            /\ \A k \in 1..Len(chain) : requested[k] = [host |-> "direct", tier |-> chain[k]]

\* C18: with a token, for a photo whose record carries at least one direct URL
\* field every GET goes to a URL of the record, never to a storage-bucket
\* template URL
C18_OnlyRecordUrls ==
    (mode = "auth" /\ access_token /\ urls # {}) =>
        \A k \in 1..Len(requested) :
            /\ requested[k].host = "direct"
            /\ requested[k].tier \in urls

\* C19: the written success_rate_percent (in tenths of a percent) is the tenth
\* nearest to (downloaded + skipped) / (downloaded + skipped + failed) * 100 when
\* the counters' sum is positive, lies between 0 and 100, is 0 when all three
\* counters are 0, and is 90.0 for (7, 2, 1)
C19_SuccessRate ==
    output # <<>> =>
        LET d == output[1].images_downloaded
            s == output[1].images_skipped
            f == output[1].images_failed
            n == d + s + f
            rate == output[1].success_rate_percent
            off  == rate * n - 1000 * (d + s)
        IN  /\ n > 0 => (2 * off <= n /\ -2 * off <= n)
            /\ rate >= 0 /\ rate <= 1000
            /\ n = 0 => rate = 0
            /\ (d = 7 /\ s = 2 /\ f = 1) => rate = 900

\* the output written for the counters (7, 2, 1) carries 90.0
C19_Witness ==
    /\ output # <<>>
    /\ output[1].images_downloaded = 7
    /\ output[1].images_skipped = 2
    /\ output[1].images_failed = 1
    /\ output[1].success_rate_percent = 900

\* C20: extract_species_metadata raises for no record; a nested object that is
\* missing or null gives null / empty output fields
C20_ExtractNeverRaises ==
    normalized # <<>> =>
        /\ normalized[1].error = "none"
        /\ record.user \in {"absent", "null"} => normalized[1].user = "nulls"
        /\ record.taxon \in {"absent", "null"} => normalized[1].species = "null"
        /\ record.photos \in {"absent", "null"} => normalized[1].photos = "empty"
        /\ record.identifications.kind \in {"absent", "null"} =>
               normalized[1].identifications = <<>>

\* C21: whatever the photo downloads gave, the entries appended so far are those of
\* the observations processed so far, one each and in order; the written list holds
\* one entry per observation of the (cut) fetch result and total_observations is
\* its length; a photo that fails adds one to failed_count and the run goes on
\* with the photo loop
C21_OneEntryPerObservation ==
    [](/\ pc \in {"photo_loop", "download"} =>
            EntryIds(metadata_list) = SubSeq(observations, 1, i - 1)
       /\ (pc = "obs_loop" \/ output # <<>>) =>
            EntryIds(metadata_list) = SubSeq(observations, 1, i - 1)
       /\ output # <<>> =>
            /\ EntryIds(output[1].observations) = observations
            /\ output[1].total_observations = Len(observations))
      /\ [][(photo.class = "pending" /\ photo'.class = "failed") =>
               (/\ failed_count' = failed_count + 1
                /\ pc' = "photo_loop"
                /\ metadata_list' = metadata_list
                /\ observations' = observations)]_vars

\* two observations were listed, the photo of the first failed and the output
\* still holds both entries
C21_Witness ==
    /\ mode = "public"
    /\ output # <<>>
    /\ Len(output[1].observations) = 2
    /\ output[1].images_failed >= 1
    /\ output[1].observations[1].local_path = {}

\* C23: in the template-URL fallback loop a candidate that returns None is
\* followed by the next candidate while one is left and resolves the photo as
\* failed only when it was the last; a candidate that returns a path resolves the
\* photo at once, with no further candidate; so a failed photo had a GET issued
\* for every URL of its chain
C23_FailedIffAllFailed ==
    [](Unauthenticated =>
         /\ photo.class \in {"failed", "uncounted"} =>
               /\ cand = Len(CurCandidates)
               /\ Len(requested) = Len(CurCandidates)
               /\ call.result = "none"
         /\ photo.class \in {"downloaded", "skipped"} => call.result = "path")
      /\ [][(pc = "download" /\ Unauthenticated) =>
               (/\ (call'.result = "none" /\ cand < Len(CurCandidates)) =>
                      (/\ cand' = cand + 1
                       /\ pc' = "download"
                       /\ photo'.class = "pending"
                       /\ failed_count' = failed_count)
                /\ (call'.result = "none" /\ cand = Len(CurCandidates)) =>
                      photo'.class \in {"failed", "uncounted"}
                /\ call'.result = "path" =>
                      (/\ photo'.class \in {"downloaded", "skipped"}
                       /\ pc' = "photo_loop"
                       /\ cand' = cand))]_vars

\* preference medium: the second URL was reached after a 404 on the first and
\* delivered the image
C23_Witness ==
    /\ mode = "public"
    /\ image_quality = "medium"
    /\ cand = 2
    /\ Len(requested) = 2
    /\ requested[1].tier = "medium"
    /\ photo.fetched
    /\ photo.class = "downloaded"
    /\ failed_count = 0

\* the photo indexes of an entry that carry a local_path
WithPath(entry) == {pr[1] : pr \in entry.local_path}

\* C24: in every entry, the current one and those already listed, a local_path
\* sits on a photo index of that observation and is the path of the file of that
\* observation and index; the step that resolves photo j stores the path on
\* index j exactly when the attempt returned a path and touches no other index
C24_LocalPathIffReturned ==
    [](/\ \A pr \in observation_metadata.local_path :
            /\ pr[1] \in 0..(PhotosOf(observation_metadata.id) - 1)
            /\ pr[2] = FileName(observation_metadata.id, pr[1])
       /\ \A n \in 1..Len(metadata_list) : \A pr \in metadata_list[n].local_path :
            /\ pr[1] \in 0..(PhotosOf(metadata_list[n].id) - 1)
            /\ pr[2] = FileName(metadata_list[n].id, pr[1])
       /\ (pc = "photo_loop" /\ j > 0) =>
            /\ WithPath(observation_metadata) \subseteq 0..(j - 1)
            /\ (j - 1) \in WithPath(observation_metadata) <=> call.result = "path")
      /\ [][(pc = "download" /\ photo'.class # "pending") =>
               observation_metadata'.local_path =
                   observation_metadata.local_path
                     \cup (IF call'.result = "path" THEN {<<j, FileName(CurId, j)>>} ELSE {})]_vars

\* observation 2: photo 0 failed and has no local_path, photo 1 was saved and has its own
C24_Witness ==
    /\ pc = "photo_loop"
    /\ j = 2
    /\ observation_metadata = [id |-> 2, local_path |-> {<<1, FileName(2, 1)>>}]
    /\ call.result = "path"

\* the files of the images directory that were not there before the run
NewFiles == {f \in FileNames : files0[f] = "absent" /\ files[f] # "absent"}

\* C22: for a run that starts on an empty images directory and in which no body
\* is cut while streaming, between photo attempts and at the end of the run the
\* number of files newly created in the images directory equals images_downloaded
C22_OneNewFilePerDownload ==
    (/\ pc \in {"obs_loop", "photo_loop", "done"}
     /\ \A f \in FileNames : files0[f] = "absent"
     /\ partial = {})
        => Cardinality(NewFiles) = downloaded_count

\* C27: a path stored as local_path never refers to a file whose body was cut by
\* an error while streaming
C27_NoPartialFileReported ==
    /\ \A pr \in observation_metadata.local_path : pr[2] \notin partial
    /\ \A n \in 1..Len(metadata_list) :
          \A pr \in metadata_list[n].local_path : pr[2] \notin partial

\* C25: in the sequence of page requests and sleeps of get_observations every
\* request that is not the last event is followed by one sleep of 0.5 s and then
\* by the next request; a sleep follows only a page that came back full; once
\* pagination is over (terminal page or failed request) the last event is a request
C25_PacingBetweenPages ==
    /\ \A k \in 1..Len(timeline) :
          IF timeline[k][1] = "get"
          THEN k < Len(timeline) => timeline[k + 1] = <<"sleep", 500>>
          ELSE /\ k > 1 /\ timeline[k - 1][1] = "get"
               /\ k < Len(timeline) => timeline[k + 1][1] = "get"
    /\ Cardinality({k \in 1..Len(timeline) : timeline[k][1] = "get"}) = Len(pageLog)
    /\ (timeline # <<>> /\ timeline[Len(timeline)][1] = "sleep") =>
          (pageOutcome = "full" /\ pc = "paginate")
    /\ (pc = "fetched" /\ pageLog # <<>>) => timeline[Len(timeline)][1] = "get"

\* three requests with a pause after each of the two full pages, none after the third
C25_Witness ==
    /\ pc = "fetched"
    /\ timeline = << <<"get", 1>>, <<"sleep", 500>>, <<"get", 2>>, <<"sleep", 500>>,
                     <<"get", 3>> >>

\* the names of the filter parameters a request carries
ParamNames == {pr[1] : pr \in params}

\* C26: for every combination of the six options a page request carries at most
\* one filter per pair (one captive value; introduced or native; threatened or
\* endemic), and when both options of a pair are given the request, which is sent
\* all the same, carries the first-named one only
C26_OneFilterPerPair ==
    pageLog # <<>> =>
        /\ Cardinality({pr \in params : pr[1] = "captive"}) <= 1
        /\ ~({"introduced", "native"} \subseteq ParamNames)
        /\ ~({"threatened", "endemic"} \subseteq ParamNames)
        /\ (flags["captive_only"] /\ flags["wild_only"]) => <<"captive", "True">> \in params
        /\ (flags["introduced_only"] /\ flags["native_only"]) =>
              (<<"introduced", "True">> \in params /\ "native" \notin ParamNames)
        /\ (flags["threatened_only"] /\ flags["endemic_only"]) =>
              (<<"threatened", "True">> \in params /\ "endemic" \notin ParamNames)
        /\ pageResp \in PageResponses

\* all six options given: the request went out with the three first-named filters
C26_Witness ==
    /\ \A n \in FlagNames : flags[n]
    /\ pageLog = <<1>>
    /\ pageResp = "200"
    /\ params = {<<"captive", "True">>, <<"introduced", "True">>, <<"threatened", "True">>}

\* the hosts that received a request carrying an Authorization header
AuthorizedHosts == {pr[1] : pr \in {q \in authSent : q[2] # "none"}}

\* C28: in the authenticated script only requests to the API host carry the
\* Authorization header, no image GET to a photo URL of the record or to the
\* storage bucket does
C28_TokenOnlyToApi ==
    mode = "auth" => AuthorizedHosts \subseteq {"api"}

\* C29: with --no-auth no token is in use, no request carries an Authorization
\* header and no detail request is made, whatever --access-token and .env hold;
\* otherwise the header carries the token of --access-token when one is given,
\* else the token of .env when there is one, else no request carries the header
C29_CredentialPrecedence ==
    LET tokens == {pr[2] : pr \in authSent} IN
    /\ credentials.no_auth =>
          (~access_token /\ tokens \subseteq {"none"} /\ detail = "none")
    /\ (~credentials.no_auth /\ credentials.cli) => tokens \subseteq {"cli"}
    /\ (~credentials.no_auth /\ ~credentials.cli /\ credentials.env) => tokens \subseteq {"env"}
    /\ (~credentials.no_auth /\ ~credentials.cli /\ ~credentials.env) =>
          tokens \subseteq {"none"}

\* --no-auth with a token on the command line and another in .env: the run ended
\* after a page request and an image GET, both without the header
C29_Witness ==
    /\ credentials = [no_auth |-> TRUE, cli |-> TRUE, env |-> TRUE]
    /\ pc = "done"
    /\ authSent = {<<"api", "none">>, <<"bucket", "none">>}
    /\ detail = "none"

\* C30: in the authenticated script, when the detail request fails or comes back
\* empty the run does not end there: the observation's entry is built from the
\* listing's record (same id, no direct URL field), its photos are attempted, and
\* the entry is appended once the last photo is done
C30_DetailFailureKeepsObservation ==
    [](detail \in {"failed", "empty"} =>
         /\ pc # "crashed"
         /\ pc \in {"photo_loop", "download"} =>
               (observation_metadata.id = CurId /\ urls = {}))
      /\ [][(pc = "obs_loop" /\ i <= Len(observations) /\ pc' # "obs_loop"
               /\ detail' \in {"failed", "empty"}) =>
               (/\ pc' = "photo_loop"
                /\ observation_metadata' = [id |-> CurId, local_path |-> {}]
                /\ metadata_list' = metadata_list)]_vars
      /\ [][(detail \in {"failed", "empty"} /\ pc = "photo_loop" /\ pc' = "obs_loop") =>
               (/\ j = PhotosOf(CurId)
                /\ metadata_list' = Append(metadata_list, observation_metadata)
                /\ observation_metadata.id = CurId)]_vars

\* the detail request of observation 2 failed; both photos were attempted on the
\* template URLs and the entry is in the written output
C30_Witness ==
    /\ mode = "auth"
    /\ access_token
    /\ detail = "failed"
    /\ collection = <<2>>
    /\ pc = "done"
    /\ attempted = 2
    /\ EntryIds(output[1].observations) = <<2>>

====
